---- MODULE Spec2Model ----
(***************************************************************************)
(* A model of the wordle_solver package: the WordleSolver session          *)
(* (solver.py), the interactive loop of RichWordleRenderer (renderer.py)   *)
(* and the filter of the earlier single-file script (wordle_solver.py).    *)
(*                                                                         *)
(* A word is a tuple of one-character strings; an Answer is a tuple of     *)
(* AnswerPart symbols ("Y", "I", "N").                                     *)
(***************************************************************************)
EXTENDS Naturals, Integers, Sequences, FiniteSets

VARIABLES
    ALL_WORDS,   \* words.ALL_WORDS: the dictionary, an ordered list of words
    hard_mode,   \* WordleSolver.hard_mode
    words,       \* WordleSolver.words: the candidate pool, an ordered list
    guesses,     \* WordleSolver.guesses
    answers,     \* WordleSolver.answers
    hidden,      \* the answer of the game being played (held by the game, not the solver)
    pc,          \* where the program is: "init", "parsed", "ready", "solve", "answered",
                 \* "endgame", "raised", "quit", "exit"
    ret          \* the last call: its name, arguments, exception and return value

vars == <<ALL_WORDS, hard_mode, words, guesses, answers, hidden, pc, ret>>

----------------------------------------------------------------------------
(* Bounds and program constants *)

\* Rounds recorded through the API and the replay of __init__ under Spec.
MaxRounds == 2

\* Longest feedback text typed at a prompt or given to --answer under SpecParse.
MaxTextLen == 6

\* len(guess) != 5, len(self.parts) != 5
W == 5

\* len(self.guesses) == 6
MaxGuesses == 6

CORRECT == "Y"
IN_WORD == "I"
INCORRECT == "N"

----------------------------------------------------------------------------
(* Dictionaries the sessions are built on *)

adddd == <<"a", "d", "d", "d", "d">>
daddd == <<"d", "a", "d", "d", "d">>
ddadd == <<"d", "d", "a", "d", "d">>
dddad == <<"d", "d", "d", "a", "d">>
ddddd == <<"d", "d", "d", "d", "d">>
aaaab == <<"a", "a", "a", "a", "b">>
aaaac == <<"a", "a", "a", "a", "c">>

abcde == <<"a", "b", "c", "d", "e">>
abced == <<"a", "b", "c", "e", "d">>
bacde == <<"b", "a", "c", "d", "e">>
eabcd == <<"e", "a", "b", "c", "d">>
abcdd == <<"a", "b", "c", "d", "d">>

apple == <<"a", "p", "p", "l", "e">>
ample == <<"a", "m", "p", "l", "e">>
amble == <<"a", "m", "b", "l", "e">>

sassy == <<"s", "a", "s", "s", "y">>
glass == <<"g", "l", "a", "s", "s">>
grass == <<"g", "r", "a", "s", "s">>
gassy == <<"g", "a", "s", "s", "y">>

Dictionaries ==
    { <<abcde, abced, bacde, eabcd, abcdd>>,
      <<apple, ample, amble>>,
      <<sassy, glass, grass, gassy>> }

\* A dictionary on which six rounds can pass with two candidates left.
LongDictionary == <<adddd, daddd, ddadd, dddad, ddddd, aaaab, aaaac>>

SolveDictionaries == Dictionaries \cup { LongDictionary }

\* Guesses a caller may type that no dictionary holds: a five-letter word and
\* one of another length.
OtherGuesses == { <<"z", "z", "z", "z", "z">>, <<"a", "b", "c", "d">> }

\* Feedback a caller may supply whatever the hidden answer is.
FixedAnswers ==
    { <<"Y", "Y", "Y", "Y", "Y">>,
      <<"N", "N", "N", "N", "N">>,
      <<"Y", "N", "I", "N", "N">> }

\* Characters of a feedback text: the three symbols, a lower-case one, white
\* space and a character outside the alphabet.
TextChars == { "Y", "I", "N", "y", " ", "X" }

Texts == UNION { [1..n -> TextChars] : n \in 0..MaxTextLen }

----------------------------------------------------------------------------
(* Helpers *)

ToSet(s) == { s[i] : i \in DOMAIN s }

\* Python's `x in seq`
In(x, s) == \E i \in DOMAIN s : s[i] = x

\* count_letter(word, letter)
count_letter(word, letter) == Cardinality({ i \in DOMAIN word : word[i] = letter })

NoErr == ""
ErrLength == "ValueError: Guesses must be 5 letters long"
ErrInvalid == "ValueError: is not a valid word"
ErrMismatch == "ValueError: Number of guesses must match number of answers"
ErrIndex == "IndexError: list index out of range"

ErrAnswerLength == "ValueError: An Answer can only be created from a string of length 5"
ErrAnswerLetter == "ValueError: is not a valid letter in input"
ErrResult == "ValueError: is not a valid result"

\* A call: its name, its word or text argument, its feedback (argument or
\* result), the exception it raised and the word it returned.
Call(op, guess, answer, raised, value) ==
    [op |-> op, guess |-> guess, answer |-> answer, raised |-> raised, value |-> value]

----------------------------------------------------------------------------
(* The game's judgement of a guess against the hidden answer *)

\* Wordle's rule: exact matches are Correct; each remaining letter of the guess
\* is Present while unmatched occurrences of it remain in the answer, taken left
\* to right, and Absent after that.
Judge(a, g) ==
    [ i \in 1..W |->
        IF a[i] = g[i] THEN CORRECT
        ELSE LET avail == Cardinality({ j \in 1..W : a[j] = g[i] /\ g[j] # a[j] })
                 rank  == Cardinality({ j \in 1..(i - 1) : g[j] = g[i] /\ g[j] # a[j] })
             IN  IF rank < avail THEN IN_WORD ELSE INCORRECT ]

----------------------------------------------------------------------------
(* Answer.from_string *)

LowerLetters ==
    << "a", "b", "c", "d", "e", "f", "g", "h", "i", "j", "k", "l", "m",
       "n", "o", "p", "q", "r", "s", "t", "u", "v", "w", "x", "y", "z" >>

UpperLetters ==
    << "A", "B", "C", "D", "E", "F", "G", "H", "I", "J", "K", "L", "M",
       "N", "O", "P", "Q", "R", "S", "T", "U", "V", "W", "X", "Y", "Z" >>

\* str.upper of one ASCII character: a lower-case letter becomes its capital,
\* any other character is kept
ToUpper ==
    [ c \in ToSet(LowerLetters) |->
        UpperLetters[CHOOSE i \in DOMAIN LowerLetters : LowerLetters[i] = c] ]

upper(c) == IF c \in DOMAIN ToUpper THEN ToUpper[c] ELSE c

\* str.lower of one ASCII character
ToLower ==
    [ c \in ToSet(UpperLetters) |->
        LowerLetters[CHOOSE i \in DOMAIN UpperLetters : UpperLetters[i] = c] ]

lower(c) == IF c \in DOMAIN ToLower THEN ToLower[c] ELSE c

Whitespace == { " " }

\* str.strip(chars): leading and trailing characters of `chars` removed
RECURSIVE strip_chars(_, _)
strip_chars(text, chars) ==
    IF text = <<>> THEN text
    ELSE IF Head(text) \in chars THEN strip_chars(Tail(text), chars)
    ELSE IF text[Len(text)] \in chars
         THEN strip_chars(SubSeq(text, 1, Len(text) - 1), chars)
    ELSE text

\* A strip that removes nothing.
strip_nothing(text) == text

\* str.strip()
strip(text) == strip_chars(text, Whitespace)

\* _input.upper().strip()
normalised(text) == strip([ i \in DOMAIN text |-> upper(text[i]) ])

\* AnswerPart.symbol
symbol(part) ==
    IF part = CORRECT THEN "Y" ELSE IF part = IN_WORD THEN "I" ELSE "N"

\* the exception of Answer.from_string, NoErr when it returns
from_string_raises(text) ==
    LET _input == normalised(text)
    IN  IF Len(_input) # W THEN ErrAnswerLength
        ELSE IF \E i \in DOMAIN _input :
                    /\ _input[i] # symbol(CORRECT)
                    /\ _input[i] # symbol(IN_WORD)
                    /\ _input[i] # symbol(INCORRECT)
             THEN ErrAnswerLetter
        ELSE NoErr

\* the parts of the Answer that Answer.from_string returns
from_string(text) ==
    LET _input == normalised(text)
    IN  [ i \in DOMAIN _input |->
            IF _input[i] = symbol(CORRECT) THEN CORRECT
            ELSE IF _input[i] = symbol(IN_WORD) THEN IN_WORD
            ELSE INCORRECT ]

\* the symbols of an Answer's parts, as the header's legend names them
render(parts) == [ i \in DOMAIN parts |-> symbol(parts[i]) ]

----------------------------------------------------------------------------
(* WordleSolver *)

\* filter_words: the test one word of the pool goes through
filter_match(word, guess, answer) ==
    /\ word # guess
    /\ \A idx \in 1..Len(answer) :
        /\ (answer[idx] = CORRECT) => ~(word[idx] # guess[idx])
        /\ (answer[idx] = IN_WORD) => ~(word[idx] = guess[idx] \/ ~In(guess[idx], word))
        /\ (answer[idx] = INCORRECT) => ~In(guess[idx], word)

\* A filter that walks the dictionary instead of the live pool.
filter_words_from_dictionary(guess, answer) ==
    SelectSeq(ALL_WORDS, LAMBDA word : filter_match(word, guess, answer))

filter_words(guess, answer) ==
    SelectSeq(words, LAMBDA word : filter_match(word, guess, answer))

is_complete == Len(words) <= 1 \/ Len(guesses) = MaxGuesses

\* A validity test that forgets the guess record.
valid_guess_ignoring_record(word) ==
    IF hard_mode THEN In(word, words) ELSE In(word, ALL_WORDS)

valid_guess(word) ==
    IF In(word, guesses) THEN FALSE
    ELSE IF hard_mode THEN In(word, words)
    ELSE In(word, ALL_WORDS)

\* An add_answer that records the guess before it validates it.
add_answer_record_first(guess, answer) ==
    IF Len(guess) # W
    THEN /\ ret' = Call("add_answer", guess, answer, ErrLength, <<>>)
         /\ UNCHANGED <<words, guesses, answers>>
    ELSE IF ~valid_guess(guess)
    THEN /\ ret' = Call("add_answer", guess, answer, ErrInvalid, <<>>)
         /\ guesses' = Append(guesses, guess)
         /\ UNCHANGED <<words, answers>>
    ELSE /\ ret' = Call("add_answer", guess, answer, NoErr, <<>>)
         /\ guesses' = Append(guesses, guess)
         /\ answers' = Append(answers, answer)
         /\ words' = filter_words(guess, answer)

add_answer(guess, answer) ==
    IF Len(guess) # W
    THEN /\ ret' = Call("add_answer", guess, answer, ErrLength, <<>>)
         /\ UNCHANGED <<words, guesses, answers>>
    ELSE IF ~valid_guess(guess)
    THEN /\ ret' = Call("add_answer", guess, answer, ErrInvalid, <<>>)
         /\ UNCHANGED <<words, guesses, answers>>
    ELSE /\ ret' = Call("add_answer", guess, answer, NoErr, <<>>)
         /\ guesses' = Append(guesses, guess)
         /\ answers' = Append(answers, answer)
         /\ words' = filter_words(guess, answer)

\* _score_words: the score of one (answer, guess) pair after the first n letters
RECURSIVE pair_score(_, _, _)
pair_score(answer, guess, n) ==
    IF n = 0 THEN 0
    ELSE LET score  == pair_score(answer, guess, n - 1)
             letter == guess[n]
             s1     == IF \E j \in 1..(n - 1) : guess[j] = letter
                       THEN score + (-1) ELSE score
         IN  IF answer[n] = letter THEN 5
             ELSE IF In(letter, answer) THEN s1 + 3
             ELSE s1 + 1

RECURSIVE SumOver(_, _, _)
SumOver(pool, guess, n) ==
    IF n = 0 THEN 0
    ELSE SumOver(pool, guess, n - 1) + pair_score(pool[n], guess, Len(guess))

\* _score_words: the guess space, in the order the scores dict is filled
guess_space == IF hard_mode THEN words ELSE ALL_WORDS

\* _score_words()[guess]
_score_words(guess) == SumOver(words, guess, Len(words))

\* next_word: the first entry of the stably sorted scores; word_scores[0] of an
\* empty list raises IndexError
next_word_raises == IF words = <<>> THEN ErrIndex ELSE NoErr

next_word ==
    IF words = <<>> THEN <<>>
    ELSE LET i == CHOOSE i \in DOMAIN guess_space :
                    /\ \A j \in DOMAIN guess_space :
                           _score_words(guess_space[j]) <= _score_words(guess_space[i])
                    /\ \A j \in 1..(i - 1) :
                           _score_words(guess_space[j]) < _score_words(guess_space[i])
         IN  guess_space[i]

----------------------------------------------------------------------------
(* Solver, the single-file script: a result is a list of True (green),
   False (grey) and None (yellow) *)

\* record_result: the conversion of one feedback symbol
converted_result(answer) ==
    [ i \in DOMAIN answer |->
        IF answer[i] = CORRECT THEN "True"
        ELSE IF answer[i] = INCORRECT THEN "False"
        ELSE "None" ]

\* record_result: the exception it raises, NoErr when it returns
record_result_raises(result) ==
    IF Len(result) # 5
       \/ strip_chars([ i \in DOMAIN result |-> lower(result[i]) ], {"y", "n", "?"}) # <<>>
    THEN ErrResult
    ELSE NoErr

\* record_result: the list it appends to self.results and returns
record_result(result) ==
    [ i \in DOMAIN result |->
        IF lower(result[i]) = "y" THEN "True"
        ELSE IF lower(result[i]) = "n" THEN "False"
        ELSE "None" ]

\* yellow_letters[letter]: the last position the letter is yellow at
yellow_letters(guess, result, letter) ==
    CHOOSE idx \in DOMAIN result :
        /\ guess[idx] = letter /\ result[idx] = "None"
        /\ \A j \in DOMAIN result :
               (guess[j] = letter /\ result[j] = "None") => j <= idx

\* grey_letters[letter]: the positions the letter is green or yellow at
grey_letters(guess, result, letter) ==
    Cardinality({ idx \in DOMAIN result :
                    guess[idx] = letter /\ result[idx] \in {"None", "True"} })

Solver_filter_words(pool, guess, result) ==
    LET good(word) ==
            /\ word # guess
            /\ \A idx \in DOMAIN result :
                   ~(result[idx] = "True" /\ word[idx] # guess[idx])
            /\ \A i \in DOMAIN result :
                   result[i] = "None" =>
                       LET letter == guess[i]
                           idx    == yellow_letters(guess, result, letter)
                       IN  ~(~In(letter, word) \/ word[idx] = letter)
            /\ \A i \in DOMAIN result :
                   ~(grey_letters(guess, result, guess[i]) = 0 /\ In(guess[i], word))
    IN  SelectSeq(pool, good)

----------------------------------------------------------------------------
(* Inputs *)

GuessInputs == ToSet(ALL_WORDS) \cup OtherGuesses

Truthful(guess) == IF Len(guess) = W THEN { Judge(hidden, guess) } ELSE {}

AnswerInputs(guess) == FixedAnswers \cup Truthful(guess)

----------------------------------------------------------------------------
(* State after lines 20-23 of WordleSolver.__init__ *)

InitOn(dictionaries) ==
    /\ ALL_WORDS \in dictionaries
    /\ hard_mode \in BOOLEAN
    /\ words = ALL_WORDS
    /\ guesses = <<>>
    /\ answers = <<>>
    /\ hidden \in ToSet(ALL_WORDS)
    /\ pc = "init"
    /\ ret = Call("__init__", <<>>, <<>>, NoErr, <<>>)

Init == InitOn(Dictionaries)

InitSolve == InitOn(SolveDictionaries)

----------------------------------------------------------------------------
(* WordleSolver.__init__: the replay of the guesses and answers it is given *)

\* len(answers) != len(guesses): raised before anything is replayed
init_mismatch ==
    /\ pc = "init"
    /\ guesses = <<>>
    /\ ret' = Call("__init__", <<>>, <<>>, ErrMismatch, <<>>)
    /\ pc' = "raised"
    /\ UNCHANGED <<ALL_WORDS, hard_mode, words, guesses, answers, hidden>>

\* one turn of `for guess, answer in zip(guesses, answers)`; an exception of
\* add_answer leaves the constructor
init_replay(guess, answer, cap) ==
    /\ pc = "init"
    /\ Len(guesses) < cap
    /\ add_answer(guess, answer)
    /\ pc' = IF ret'.raised # NoErr THEN "raised" ELSE "init"
    /\ UNCHANGED <<ALL_WORDS, hard_mode, hidden>>

\* the constructor returns
init_done ==
    /\ pc = "init"
    /\ ret' = Call("__init__", <<>>, <<>>, NoErr, <<>>)
    /\ pc' = "ready"
    /\ UNCHANGED <<ALL_WORDS, hard_mode, words, guesses, answers, hidden>>

----------------------------------------------------------------------------
(* Calls on a constructed session *)

\* WordleSolver.add_answer called on the session; the caller sees the exception
AddAnswer(guess, answer, cap) ==
    /\ pc = "ready"
    /\ Len(guesses) < cap
    /\ add_answer(guess, answer)
    /\ UNCHANGED <<ALL_WORDS, hard_mode, hidden, pc>>

\* RichWordleRenderer.suggest, the --suggest run of main
suggest ==
    /\ pc = "ready"
    /\ ret' = Call("next_word", <<>>, <<>>, next_word_raises, next_word)
    /\ pc' = IF next_word_raises # NoErr THEN "raised" ELSE "exit"
    /\ UNCHANGED <<ALL_WORDS, hard_mode, words, guesses, answers, hidden>>

----------------------------------------------------------------------------
(* RichWordleRenderer.solve *)

\* solve up to its loop: with a console that is not interactive it prints a
\* line on stderr and returns; no header, no prompt, no endgame
solve ==
    /\ pc = "ready"
    /\ ret' = Call("solve", <<>>, <<>>, NoErr, <<>>)
    /\ \E is_interactive \in BOOLEAN : pc' = IF is_interactive THEN "solve" ELSE "exit"
    /\ UNCHANGED <<ALL_WORDS, hard_mode, words, guesses, answers, hidden>>

InLoop == pc = "solve" /\ ~is_complete

\* _action_suggestion with an answer that parses: _guess records next_word()
_action_suggestion(answer, cap) ==
    /\ InLoop
    /\ Len(guesses) < cap
    /\ IF next_word_raises # NoErr
       THEN /\ ret' = Call("next_word", <<>>, <<>>, next_word_raises, <<>>)
            /\ UNCHANGED <<words, guesses, answers>>
       ELSE add_answer(next_word, answer)
    /\ pc' = IF ret'.raised # NoErr THEN "raised" ELSE pc
    /\ UNCHANGED <<ALL_WORDS, hard_mode, hidden>>

\* _action_suggestion with an answer that does not parse: return False
_action_suggestion_no_answer ==
    /\ InLoop
    /\ ret' = Call("_action_suggestion", <<>>, <<>>, next_word_raises, next_word)
    /\ pc' = IF next_word_raises # NoErr THEN "raised" ELSE pc
    /\ UNCHANGED <<ALL_WORDS, hard_mode, words, guesses, answers, hidden>>

\* _action_guess: _prompt_guess turns down a guess that is not valid_guess
_action_guess(guess, answer, cap) ==
    /\ InLoop
    /\ Len(guesses) < cap
    /\ IF ~valid_guess(guess)
       THEN /\ ret' = Call("_prompt_guess", guess, <<>>, NoErr, <<>>)
            /\ UNCHANGED <<words, guesses, answers>>
       ELSE add_answer(guess, answer)
    /\ pc' = IF ret'.raised # NoErr THEN "raised" ELSE pc
    /\ UNCHANGED <<ALL_WORDS, hard_mode, hidden>>

_action_remaining_words ==
    /\ InLoop
    /\ ret' = Call("_action_remaining_words", <<>>, <<>>, NoErr, <<>>)
    /\ UNCHANGED <<ALL_WORDS, hard_mode, words, guesses, answers, hidden, pc>>

\* raise KeyboardInterrupt, caught by __main__: sys.exit(1)
_action_quit ==
    /\ InLoop
    /\ ret' = Call("_action_quit", <<>>, <<>>, "KeyboardInterrupt", <<>>)
    /\ pc' = "quit"
    /\ UNCHANGED <<ALL_WORDS, hard_mode, words, guesses, answers, hidden>>

\* _render_endgame: the lines printed once the loop is left
endgame_messages ==
    (IF Len(guesses) = MaxGuesses THEN { "Maximum guesses exceeded" } ELSE {})
    \cup (IF Len(words) = 1 THEN { "The answer is" } ELSE {})
    \cup (IF words = <<>> THEN { "No valid words remain" } ELSE {})

_render_endgame ==
    /\ pc = "solve"
    /\ is_complete
    /\ ret' = Call("_render_endgame", <<>>, <<>>, NoErr,
                   IF Len(words) = 1 THEN words[1] ELSE <<>>)
    /\ pc' = "endgame"
    /\ UNCHANGED <<ALL_WORDS, hard_mode, words, guesses, answers, hidden>>

----------------------------------------------------------------------------
(* Specifications *)

\* Any caller: replayed history, direct calls and the interactive loop, with any
\* feedback, up to MaxRounds recorded rounds.
Next ==
    \/ init_mismatch
    \/ \E guess \in GuessInputs : \E answer \in AnswerInputs(guess) :
           init_replay(guess, answer, MaxRounds)
    \/ init_done
    \/ \E guess \in GuessInputs : \E answer \in AnswerInputs(guess) :
           AddAnswer(guess, answer, MaxRounds)
    \/ suggest
    \/ solve
    \/ \E answer \in AnswerInputs(next_word) : _action_suggestion(answer, MaxRounds)
    \/ _action_suggestion_no_answer
    \/ \E guess \in GuessInputs : \E answer \in AnswerInputs(guess) :
           _action_guess(guess, answer, MaxRounds)
    \/ _action_remaining_words
    \/ _action_quit
    \/ _render_endgame

Spec == Init /\ [][Next]_vars

\* A game played in the interactive loop from a fresh session, every feedback
\* the game's judgement of the guess against the hidden answer.
NextSolve ==
    \/ init_done
    \/ solve
    \/ _action_suggestion(Judge(hidden, next_word), MaxGuesses)
    \/ _action_suggestion_no_answer
    \/ \E guess \in GuessInputs : \E answer \in Truthful(guess) :
           _action_guess(guess, answer, MaxGuesses)
    \/ _action_remaining_words
    \/ _action_quit
    \/ _render_endgame

SpecSolve == InitSolve /\ [][NextSolve]_vars

----------------------------------------------------------------------------
(* Feedback texts: the parse of a text, then the call that uses its result *)

\* The call record of Answer.from_string(text)
parsed(text) ==
    LET raised == from_string_raises(text)
    IN  Call("from_string", text,
             IF raised = NoErr THEN from_string(text) ELSE <<>>, raised, <<>>)

\* parse_cli_args: Answer.from_string on the --answer text, before the session
\* is built; its ValueError leaves main
parse_cli_args ==
    /\ pc = "init"
    /\ guesses = <<>>
    /\ ret.op = "__init__"
    /\ \E text \in Texts : ret' = parsed(text)
    /\ pc' = IF ret'.raised # NoErr THEN "raised" ELSE "parsed"
    /\ UNCHANGED <<ALL_WORDS, hard_mode, words, guesses, answers, hidden>>

\* WordleSolver.__init__ replaying the --guess word with the parsed --answer
init_replay_parsed(guess) ==
    /\ pc = "parsed"
    /\ add_answer(guess, ret.answer)
    /\ pc' = IF ret'.raised # NoErr THEN "raised" ELSE "init"
    /\ UNCHANGED <<ALL_WORDS, hard_mode, hidden>>

\* _action_guess when _prompt_guess turns the typed guess down: return False
_prompt_guess_refused ==
    /\ InLoop
    /\ \E guess \in GuessInputs :
           /\ ~valid_guess(guess)
           /\ ret' = Call("_prompt_guess", guess, <<>>, NoErr, <<>>)
    /\ UNCHANGED <<ALL_WORDS, hard_mode, words, guesses, answers, hidden, pc>>

\* The guess an action holds when it calls _prompt_answer: next_word() for
\* _action_suggestion, the typed guess _prompt_guess let through for
\* _action_guess
PromptedGuesses == { next_word } \cup { guess \in GuessInputs : valid_guess(guess) }

\* _action_suggestion and _action_guess up to _prompt_answer:
\* Answer.from_string on the text typed at "answer: "; its ValueError is caught
\* and None returned, else the action goes on to _guess with the guess it holds
\* (kept in ret.value)
_prompt_answer ==
    /\ InLoop
    /\ \E text \in Texts :
           LET answer == parsed(text)
           IN  IF answer.raised # NoErr
               THEN ret' = answer
               ELSE \E guess \in PromptedGuesses : ret' = [answer EXCEPT !.value = guess]
    /\ pc' = "answered"
    /\ UNCHANGED <<ALL_WORDS, hard_mode, words, guesses, answers, hidden>>

\* _action_suggestion and _action_guess after _prompt_answer: return False
\* without an answer, else _guess records the guess with it
_guess ==
    /\ pc = "answered"
    /\ IF ret.raised # NoErr
       THEN /\ ret' = Call("_prompt_answer", <<>>, <<>>, NoErr, <<>>)
            /\ UNCHANGED <<words, guesses, answers>>
       ELSE add_answer(ret.value, ret.answer)
    /\ pc' = IF ret'.raised # NoErr THEN "raised" ELSE "solve"
    /\ UNCHANGED <<ALL_WORDS, hard_mode, hidden>>

\* One fresh session in normal mode: the parser reads nothing of it.
InitParse ==
    /\ InitOn({ <<apple, ample, amble>> })
    /\ hard_mode = FALSE
    /\ hidden = ample

NextParse ==
    \/ parse_cli_args
    \/ \E guess \in GuessInputs : init_replay_parsed(guess)
    \/ init_done
    \/ solve
    \/ _prompt_guess_refused
    \/ _prompt_answer
    \/ _guess
    \/ _action_remaining_words
    \/ _action_quit
    \/ _render_endgame

SpecParse == InitParse /\ [][NextParse]_vars

----------------------------------------------------------------------------
(* Reference definitions the properties are stated with *)

\* Occurrences of guess[i] judged Correct or Present anywhere in the guess.
Confirmed(guess, answer, i) ==
    Cardinality({ j \in 1..W : guess[j] = guess[i] /\ answer[j] \in {CORRECT, IN_WORD} })

\* The candidate filter with the duplicate-letter rule.
RefRetain(word, guess, answer) ==
    /\ word # guess
    /\ \A i \in 1..W :
        /\ (answer[i] = CORRECT) => word[i] = guess[i]
        /\ (answer[i] = IN_WORD) => (In(guess[i], word) /\ word[i] # guess[i])
        /\ (answer[i] = INCORRECT) =>
               count_letter(word, guess[i]) <= Confirmed(guess, answer, i)

RefFilter(pool, guess, answer) ==
    SelectSeq(pool, LAMBDA word : RefRetain(word, guess, answer))

\* The pairwise score as a sum of per-position scores.
RECURSIVE RefPairScore(_, _, _)
RefPairScore(answer, guess, n) ==
    IF n = 0 THEN 0
    ELSE LET letter == guess[n]
             dup    == IF \E j \in 1..(n - 1) : guess[j] = letter THEN 1 ELSE 0
             here   == IF answer[n] = letter THEN 5
                       ELSE IF In(letter, answer) THEN 3 - dup
                       ELSE 1 - dup
         IN  RefPairScore(answer, guess, n - 1) + here

RECURSIVE RefTotal(_, _, _)
RefTotal(pool, guess, n) ==
    IF n = 0 THEN 0
    ELSE RefTotal(pool, guess, n - 1) + RefPairScore(pool[n], guess, W)

RefNextWord ==
    LET total(g) == RefTotal(words, g, Len(words))
        i == CHOOSE i \in DOMAIN guess_space :
                 /\ \A j \in DOMAIN guess_space : total(guess_space[j]) <= total(guess_space[i])
                 /\ \A j \in 1..(i - 1) : total(guess_space[j]) < total(guess_space[i])
    IN  guess_space[i]

AllCorrect == [ i \in 1..W |-> CORRECT ]

NoDuplicates(s) == \A i, j \in DOMAIN s : s[i] = s[j] => i = j

Recorded == ret.op = "add_answer" /\ ret.raised = NoErr
Recorded_ == ret'.op = "add_answer" /\ ret'.raised = NoErr

\* Every recorded feedback is the game's judgement against the hidden answer.
TruthfulSession ==
    \A i \in DOMAIN guesses : answers[i] = Judge(hidden, guesses[i])

----------------------------------------------------------------------------
(* Properties *)

\* C1: a successful add_answer leaves exactly the words of the pool that pass
\* the reference filter: the Correct, Present and w != guess rules, and for an
\* Absent position i at most k occurrences of guess[i], k being the number of
\* positions of the guess holding that letter that are judged Correct or Present.
C1_DuplicateLetterRule ==
    [][Recorded_ => words' = RefFilter(words, ret'.guess, ret'.answer)]_vars

\* The script's filter against the same reference, on the full dictionary with
\* every guess of it and every feedback (the script puts no limit on a letter
\* once one occurrence of it is judged Correct or Present).
AllAnswers == [1..W -> {CORRECT, IN_WORD, INCORRECT}]

Script_DuplicateLetterRule ==
    guesses = <<>> =>
        \A guess \in ToSet(ALL_WORDS) : \A answer \in AllAnswers :
            Solver_filter_words(words, guess, converted_result(answer))
                = RefFilter(words, guess, answer)

\* C2: while every recorded feedback is the truthful judgement against the
\* hidden answer and the hidden answer has not been guessed, the hidden answer
\* is in the candidate pool.
C2_Soundness ==
    (TruthfulSession /\ ~In(hidden, guesses)) => In(hidden, words)

\* C3: after a guess is recorded with all-Correct feedback the session is
\* complete and the pool holds exactly the guessed word, so the endgame names it
\* as the answer and does not report that no valid words remain.
C3_SolvedKeepsAnswer ==
    (Recorded /\ ret.answer = AllCorrect) =>
        /\ is_complete
        /\ words = <<ret.guess>>
        /\ endgame_messages \cap { "No valid words remain" } = {}

\* C4: once is_complete holds no step changes the guess record, the feedback
\* record or the pool, and is_complete holds after the step.
C4_TerminalAbsorbing ==
    [][is_complete => (is_complete' /\ UNCHANGED <<words, guesses, answers>>)]_vars

\* C5: in a session that is not complete add_answer fails exactly when the guess
\* is not 5 letters long, or is already in the guess record, or is not in the
\* dictionary, or (hard mode) is not in the live pool; and no word is twice in
\* the guess record.
C5_Acceptance ==
    /\ [](NoDuplicates(guesses))
    /\ [][(ret'.op = "add_answer" /\ ~is_complete) =>
            ((ret'.raised # NoErr) <=>
                \/ Len(ret'.guess) # 5
                \/ In(ret'.guess, guesses)
                \/ ~In(ret'.guess, ALL_WORDS)
                \/ (hard_mode /\ ~In(ret'.guess, words)))]_vars

\* A hard-mode guess from the dictionary, not guessed before, turned down
\* because it left the live pool, in a session that is not complete.
C5_Witness ==
    /\ hard_mode
    /\ ~is_complete
    /\ ret.op = "add_answer"
    /\ ret.raised = ErrInvalid
    /\ In(ret.guess, ALL_WORDS)
    /\ ~In(ret.guess, guesses)
    /\ ~In(ret.guess, words)

\* C6: a failing add_answer leaves the guess record, the feedback record and the
\* pool as they were; a successful one appends the guess and the feedback and
\* replaces the pool by the filtered pool; the two records have equal length.
C6_NoPartialMutation ==
    /\ [](Len(guesses) = Len(answers))
    /\ [][(ret'.op = "add_answer") =>
            IF ret'.raised # NoErr
            THEN UNCHANGED <<guesses, answers, words>>
            ELSE /\ guesses' = Append(guesses, ret'.guess)
                 /\ answers' = Append(answers, ret'.answer)
                 /\ words' = filter_words(ret'.guess, ret'.answer)]_vars

\* A failed add_answer on a session that already holds a recorded round and a
\* pool that is not the dictionary any more.
C6_Witness ==
    /\ ret.op = "add_answer"
    /\ ret.raised # NoErr
    /\ Len(guesses) >= 1
    /\ Len(answers) = Len(guesses)
    /\ words # ALL_WORDS

\* C7: in a game played with truthful feedback the guess record never holds
\* more than 6 rounds, the session is complete once it holds 6, and no
\* exception leaves the interactive loop.
C7_Termination ==
    /\ Len(guesses) <= MaxGuesses
    /\ (Len(guesses) = MaxGuesses => is_complete)
    /\ pc # "raised"

\* C8: no step adds a word to the pool or makes it longer, and the pool holds
\* only words of the dictionary.
C8_MonotonicShrink ==
    /\ [](ToSet(words) \subseteq ToSet(ALL_WORDS))
    /\ [][ToSet(words') \subseteq ToSet(words) /\ Len(words') <= Len(words)]_vars

\* Two rounds recorded, the second of which removed words from a pool that the
\* first had already cut down.
C8_Witness ==
    /\ Recorded
    /\ Len(guesses) = 2
    /\ words # <<>>
    /\ Len(words) + 2 < Len(ALL_WORDS)

\* C9: with a non-empty pool next_word is the first word of the guess space
\* whose total of per-position scores (5 for an exact match, else 3 or 1, less 1
\* for a letter seen earlier in the guess), summed over the pool, is maximal.
C9_RankerResult ==
    words # <<>> => next_word = RefNextWord

\* C10: when the pool holds exactly one word next_word returns it.
C10_SingletonFallback ==
    Len(words) = 1 => next_word = words[1]

\* The text the parser looks at, written without the strip: the upper-cased
\* text from its first to its last character that is not whitespace.
RefNormalised(text) ==
    LET u == [ i \in DOMAIN text |-> upper(text[i]) ]
        kept == { i \in DOMAIN u : u[i] \notin Whitespace }
    IN  IF kept = {} THEN <<>>
        ELSE SubSeq(u, CHOOSE i \in kept : \A j \in kept : i <= j,
                       CHOOSE i \in kept : \A j \in kept : j <= i)

Symbols == { symbol(CORRECT), symbol(IN_WORD), symbol(INCORRECT) }

\* What the parse of `text` has to have done when `text` is the text the
\* parser is said to look at.
ParsedAs(text) ==
    /\ ret.raised = NoErr <=> (Len(text) = W /\ \A i \in DOMAIN text : text[i] \in Symbols)
    /\ Len(text) # W => ret.raised = ErrAnswerLength
    /\ (Len(text) = W /\ \E i \in DOMAIN text : text[i] \notin Symbols)
          => ret.raised = ErrAnswerLetter
    /\ ret.raised = NoErr =>
          /\ Len(ret.answer) = W
          /\ \A i \in DOMAIN text :
                /\ text[i] = "Y" => ret.answer[i] = CORRECT
                /\ text[i] = "I" => ret.answer[i] = IN_WORD
                /\ text[i] = "N" => ret.answer[i] = INCORRECT
          /\ render(ret.answer) = text

\* C11 as stated: feedback parsing accepts a text if and only if the text as
\* given has exactly 5 characters, each one of Y, I, N; any other length is the
\* length error, a 5-character text with another character is the symbol
\* error, and rendering the parsed feedback gives back the text.
C11_ParseStrict ==
    ret.op = "from_string" => ParsedAs(ret.guess)

\* C11 amended: the same holds of the text once upper-cased and stripped of
\* the whitespace around it: it is accepted if and only if that text has
\* exactly 5 characters, each one of Y, I, N; the length and the symbol errors
\* are decided on that text, and rendering the parsed feedback gives it back.
C11_ParseNormalised ==
    ret.op = "from_string" => ParsedAs(RefNormalised(ret.guess))

\* A text accepted although it is not 5 characters long: it is padded with
\* whitespace, and the parsed feedback renders to the text without the padding.
C11_Witness ==
    /\ ret.op = "from_string"
    /\ ret.raised = NoErr
    /\ Len(ret.guess) # W
    /\ render(ret.answer) # ret.guess
    /\ render(ret.answer) = RefNormalised(ret.guess)

\* The error kind the specification reserves for ranking an empty pool.
EmptyCandidatePool == "EmptyCandidatePool"

\* C12: next_word called on an empty pool fails with the dedicated
\* EmptyCandidatePool error and returns no word, and the call leaves the guess
\* record and the pool unchanged.
C12_EmptyPoolError ==
    /\ []((ret.op = "next_word" /\ words = <<>>) =>
              (ret.raised = EmptyCandidatePool /\ ret.value = <<>>))
    /\ [][(ret'.op = "next_word" /\ words = <<>>) =>
              UNCHANGED <<words, guesses, answers>>]_vars

\* C13: in every reachable state where the session is not complete and the
\* pool is not empty, the word next_word returns satisfies valid_guess, so
\* recording the suggestion never fails with "not a valid word".
C13_SuggestionRecordable ==
    (~is_complete /\ words # <<>>) => valid_guess(next_word)

====
